---------------------------- MODULE Spec2Model ----------------------------
(***************************************************************************)
(* A model of scripts/generate-catalog.py: the frontmatter parser, the     *)
(* description normaliser, the five discovery scanners, the catalog        *)
(* renderer and the write / --check entry point.                           *)
(*                                                                         *)
(* Text is modelled character by character: a Python str is a tuple of     *)
(* one-character strings.  The character U+2014 (em dash), which the       *)
(* module syntax cannot spell, is the single element "u2014".              *)
(***************************************************************************)
EXTENDS Naturals, Sequences, FiniteSets, TLC

VARIABLES
    tree,       \* the checkout's input files and directories: a set of records
    target,     \* docs/CATALOG.md: [dir |-> docs/ exists, exists |-> BOOLEAN, bytes |-> text]
    last,       \* the most recent step: "none", "write", "check", "tamper"
    exitCode,   \* exit status of the most recent run of main (0 before any)
    warnings,   \* paths for which the most recent run printed a WARNING line
    descIn,     \* extract_catalog_description: its argument
    descOut,    \* ... its result
    descAgain,  \* ... the result of applying it to its own result
    descPc,     \* "input", "extracted", "reextracted"
    yamlLines,  \* _parse_yaml_flat: the lines of its argument
    yamlOut,    \* ... the dict it returns, a function from its keys
    yamlPc      \* "input", "parsed"

mainVars == <<tree, target, last, exitCode, warnings>>
descVars == <<descIn, descOut, descAgain, descPc>>
yamlVars == <<yamlLines, yamlOut, yamlPc>>
vars == <<mainVars, descVars, yamlVars>>

---------------------------------------------------------------------------
(* Bounds of the model. *)

\* Most pieces concatenated into one description handed to the normaliser.
MaxPieces == 3

---------------------------------------------------------------------------
(* Characters and the str methods the script uses. *)

LF == "\n"
CR == "\r"

LowerLetters == <<"a","b","c","d","e","f","g","h","i","j","k","l","m","n","o","p","q","r","s","t","u","v","w","x","y","z">>
UpperLetters == <<"A","B","C","D","E","F","G","H","I","J","K","L","M","N","O","P","Q","R","S","T","U","V","W","X","Y","Z">>
Digits == <<"0","1","2","3","4","5","6","7","8","9">>

Range(s) == {s[i] : i \in 1..Len(s)}

LowerSet == Range(LowerLetters)
UpperSet == Range(UpperLetters)
DigitSet == Range(Digits)

ToLowerMap == [c \in UpperSet |-> LowerLetters[CHOOSE i \in 1..26 : UpperLetters[i] = c]]
ToUpperMap == [c \in LowerSet |-> UpperLetters[CHOOSE i \in 1..26 : LowerLetters[i] = c]]

\* str.lower() / str.upper() of one character
Lower(c) == IF c \in UpperSet THEN ToLowerMap[c] ELSE c
Upper(c) == IF c \in LowerSet THEN ToUpperMap[c] ELSE c

\* str.isspace() and the regex class \s, on the characters of the model
IsSpace(c) == c \in {" ", "\t", LF, CR}

\* the regex class \w
IsWordChar(c) == c \in LowerSet \cup UpperSet \cup DigitSet \cup {"_"}

SetMin(S) == CHOOSE x \in S : \A y \in S : x <= y
SetMax(S) == CHOOSE x \in S : \A y \in S : x >= y

\* s[i:] with a 1-based first index
From(s, i) == SubSeq(s, i, Len(s))

StartsWith(s, p) == Len(p) <= Len(s) /\ SubSeq(s, 1, Len(p)) = p
EndsWith(s, p) == Len(p) <= Len(s) /\ SubSeq(s, Len(s) - Len(p) + 1, Len(s)) = p

\* str.strip()
Strip(s) ==
    LET keep == {i \in 1..Len(s) : ~IsSpace(s[i])}
    IN  IF keep = {} THEN <<>> ELSE SubSeq(s, SetMin(keep), SetMax(keep))

\* str.split(): the maximal runs of non-whitespace characters
RECURSIVE SplitWs(_)
SplitWs(s) ==
    LET keep == {i \in 1..Len(s) : ~IsSpace(s[i])}
    IN  IF keep = {} THEN <<>>
        ELSE LET b == SetMin(keep)
                 stops == {j \in b..Len(s) : IsSpace(s[j])}
                 e == IF stops = {} THEN Len(s) + 1 ELSE SetMin(stops)
             IN  <<SubSeq(s, b, e - 1)>> \o SplitWs(From(s, e))

\* str.split(sep) for a one-character separator
RECURSIVE Split(_, _)
Split(s, sep) ==
    LET at == {i \in 1..Len(s) : s[i] = sep}
    IN  IF at = {} THEN <<s>>
        ELSE <<SubSeq(s, 1, SetMin(at) - 1)>> \o Split(From(s, SetMin(at) + 1), sep)

\* sep.join(parts)
RECURSIVE Join(_, _)
Join(parts, sep) ==
    IF parts = <<>> THEN <<>>
    ELSE IF Len(parts) = 1 THEN parts[1]
    ELSE parts[1] \o sep \o Join(Tail(parts), sep)

---------------------------------------------------------------------------
(* Description normaliser. *)

\* The alternatives of STOP_PATTERNS, lower-cased (the pattern is compiled
\* with re.IGNORECASE); "s?" is spelled out as two alternatives and
\* boundary says whether the alternative ends in \b.
STOP_PATTERNS ==
    { [text |-> <<"u","s","e"," ","w","h","e","n">>,        boundary |-> TRUE],
      [text |-> <<"u","s","e"," ","b","e","f","o","r","e">>,      boundary |-> TRUE],
      [text |-> <<"u","s","e"," ","t","h","i","s">>,        boundary |-> TRUE],
      [text |-> <<"u","s","e"," ","p","r","o","a","c","t","i","v","e","l","y">>, boundary |-> TRUE],
      [text |-> <<"r","e","c","o","g","n","i","z","e",":">>,      boundary |-> FALSE],
      [text |-> <<"r","e","c","o","g","n","i","z","e","s",":">>,     boundary |-> FALSE],
      [text |-> <<"t","r","i","g","g","e","r",":">>,        boundary |-> FALSE],
      [text |-> <<"t","r","i","g","g","e","r","s",":">>,       boundary |-> FALSE],
      [text |-> <<"u","s","a","g","e",":">>,          boundary |-> FALSE],
      [text |-> <<"o","p","t","i","o","n","a","l",":">>,       boundary |-> FALSE],
      [text |-> <<"c","a","n","c","e","l",":">>,         boundary |-> FALSE],
      [text |-> <<"a","c","t","i","v","a","t","e"," ","w","h","e","n",":">>,  boundary |-> FALSE] }

\* \b just before position p of s
WordBoundary(s, p) ==
    LET before == p > 1 /\ p - 1 <= Len(s) /\ IsWordChar(s[p - 1])
        after  == p >= 1 /\ p <= Len(s) /\ IsWordChar(s[p])
    IN  before # after

\* one alternative of the group matches at position j of s
AltMatchesAt(s, j, alt) ==
    /\ j + Len(alt.text) - 1 <= Len(s)
    /\ \A k \in 1..Len(alt.text) : Lower(s[j + k - 1]) = alt.text[k]
    /\ alt.boundary => WordBoundary(s, j + Len(alt.text))

TriggerAt(s, j) == \E alt \in STOP_PATTERNS : AltMatchesAt(s, j, alt)

BrokenAtLineStart(s, i) == TRUE

\* ^ under re.MULTILINE: the start of the string or just after a newline
AtLineStart(s, i) == i = 1 \/ s[i - 1] = LF

\* whether "^\s*(...)" matches starting at position i
StopMatchesFrom(s, i) ==
    /\ AtLineStart(s, i)
    /\ \E j \in i..Len(s) :
          /\ \A k \in i..(j - 1) : IsSpace(s[k])
          /\ TriggerAt(s, j)

\* STOP_PATTERNS.search(s): m.start() + 1, or 0 when there is no match
StopSearch(s) ==
    LET starts == {i \in 1..Len(s) : StopMatchesFrom(s, i)}
    IN  IF starts = {} THEN 0 ELSE SetMin(starts)

BrokenCollapse(s) == Strip(s)

\* " ".join(s.split()).strip(), then the period
Collapse(s) == Strip(Join(SplitWs(s), <<" ">>))

Terminate(desc) ==
    IF desc # <<>> /\ ~EndsWith(desc, <<".">>) THEN desc \o <<".">> ELSE desc

extract_catalog_description(raw_description) ==
    LET m == StopSearch(raw_description)
        cut == IF m # 0 THEN SubSeq(raw_description, 1, m - 1) ELSE raw_description
    IN  Terminate(Collapse(cut))

---------------------------------------------------------------------------
(* Specification of the normaliser: a description is drawn, normalised,    *)
(* and the result is normalised once more.                                 *)

\* Fragments the descriptions are assembled from.
DescPieces ==
    { <<"a">>, <<".">>, <<" ">>, <<"\n">>, <<"U","s","e">>, <<"w","h","e","n">>, <<"U","s","e"," ","w","h","e","n">>,
      <<"u","s","a","g","e",":">>, <<"\t">> }

\* Descriptions quoted in the documentation of the normaliser.
DescOneLine  == <<"D","o","e","s"," ","X"," ","a","n","d"," ","Y","."," ","U","s","e"," ","w","h","e","n"," ","Z"," ","h","a","p","p","e","n","s",".">>
DescTwoLines == <<"D","o","e","s"," ","X"," ","a","n","d"," ","Y",".","\n","U","s","e"," ","w","h","e","n"," ","Z"," ","h","a","p","p","e","n","s",".">>
DescSummary  == <<"D","o","e","s"," ","X"," ","a","n","d"," ","Y",".">>

RECURSIVE Concatenations(_)
Concatenations(n) ==
    IF n = 0 THEN {<<>>}
    ELSE LET shorter == Concatenations(n - 1)
         IN  shorter \cup {s \o p : s \in shorter, p \in DescPieces}

DescInputs == Concatenations(MaxPieces) \cup {DescOneLine, DescTwoLines}

MainIdle ==
    /\ tree = {}
    /\ target = [dir |-> TRUE, exists |-> FALSE, bytes |-> <<>>]
    /\ last = "none"
    /\ exitCode = 0
    /\ warnings = <<>>

DescIdle ==
    /\ descIn = <<>>
    /\ descOut = <<>>
    /\ descAgain = <<>>
    /\ descPc = "idle"

YamlIdle ==
    /\ yamlLines = <<>>
    /\ yamlOut = <<>>
    /\ yamlPc = "idle"

DescInit ==
    /\ descIn \in DescInputs
    /\ descOut = <<>>
    /\ descAgain = <<>>
    /\ descPc = "input"
    /\ MainIdle
    /\ YamlIdle

Extract ==
    /\ descPc = "input"
    /\ descOut' = extract_catalog_description(descIn)
    /\ descPc' = "extracted"
    /\ UNCHANGED <<descIn, descAgain, mainVars, yamlVars>>

ExtractAgain ==
    /\ descPc = "extracted"
    /\ descAgain' = extract_catalog_description(descOut)
    /\ descPc' = "reextracted"
    /\ UNCHANGED <<descIn, descOut, mainVars, yamlVars>>

DescNext == Extract \/ ExtractAgain

SpecDesc == DescInit /\ [][DescNext]_vars

---------------------------------------------------------------------------
(* Claims about the normaliser. *)

\* str.lstrip()
LStrip(s) ==
    LET keep == {i \in 1..Len(s) : ~IsSpace(s[i])}
    IN  IF keep = {} THEN <<>> ELSE From(s, SetMin(keep))

\* The lines of s that precede its first line beginning, after optional
\* whitespace, with a trigger phrase (all lines when there is none).
LinesBeforeTrigger(s) ==
    LET ls == Split(s, LF)
        hit == {n \in 1..Len(ls) : TriggerAt(LStrip(ls[n]), 1)}
    IN  IF hit = {} THEN ls ELSE SubSeq(ls, 1, SetMin(hit) - 1)

\* The summary a description is expected to give: the words of the lines
\* before the first trigger line, single-spaced, with a final period.
ExpectedSummary(s) ==
    LET words == SplitWs(Join(LinesBeforeTrigger(s), <<LF>>))
        text == Join(words, <<" ">>)
    IN  IF text = <<>> \/ text[Len(text)] = "." THEN text ELSE text \o <<".">>

\* C5, as stated: the one-line description "Does X and Y. Use when Z
\* happens." is cut at the trigger phrase and gives "Does X and Y.".
C5_Original ==
    (descPc # "input" /\ descIn = DescOneLine) => descOut = DescSummary

\* C5, amended: the result is the text before the first trigger phrase that
\* begins a line (after optional whitespace).  "Does X and Y.\nUse when Z
\* happens." gives "Does X and Y."; the one-line "Does X and Y. Use when Z
\* happens.", whose trigger phrase is in mid-line, is returned whole.
C5_CutAtLineStartTrigger ==
    descPc # "input" =>
        /\ descOut = ExpectedSummary(descIn)
        /\ descIn = DescTwoLines => descOut = DescSummary
        /\ descIn = DescOneLine => descOut = DescOneLine

C5_Witness ==
    /\ descPc = "extracted"
    /\ descIn = DescTwoLines
    /\ descOut = DescSummary


\* a result has the shape of a table cell: one line, no whitespace at
\* either end, no two whitespace characters in a row, a final period
CellShaped(s) ==
    /\ \A i \in 1..Len(s) : s[i] # LF /\ s[i] # CR
    /\ s # <<>> => ~IsSpace(s[1]) /\ ~IsSpace(s[Len(s)])
    /\ \A i \in 1..(Len(s) - 1) : ~(IsSpace(s[i]) /\ IsSpace(s[i + 1]))
    /\ s = <<>> \/ s[Len(s)] = "."

\* C10, as stated: every result is cell-shaped, and normalising a result
\* returns it unchanged.
C10_Original ==
    /\ descPc # "input" => CellShaped(descOut)
    /\ descPc = "reextracted" => descAgain = descOut

\* C10, amended: every result is a single line with no leading or trailing
\* whitespace and no run of two or more whitespace characters, and is empty
\* or ends with a period; normalising a result returns it unchanged, unless
\* the result itself begins with a trigger phrase, and then it returns the
\* empty string.
C10_ShapeAndRenormalise ==
    /\ descPc # "input" => CellShaped(descOut)
    /\ descPc = "reextracted" =>
          descAgain = IF TriggerAt(descOut, 1) THEN <<>> ELSE descOut

C10_Witness ==
    /\ descPc = "reextracted"
    /\ \E i \in 1..Len(descIn) : descIn[i] = LF
    /\ \E i \in 1..(Len(descIn) - 1) : IsSpace(descIn[i]) /\ IsSpace(descIn[i + 1])
    /\ descOut # <<>>
    /\ descAgain = descOut

---------------------------------------------------------------------------
(* Frontmatter parsing. *)

\* Path.read_text(encoding="utf-8"): text mode with universal newlines, so
\* "\r\n" and a lone "\r" both read as "\n".
read_text(bytes) ==
    LET n == Len(bytes)
        mapped == [i \in 1..n |->
                      IF bytes[i] # CR THEN bytes[i]
                      ELSE IF i < n /\ bytes[i + 1] = LF THEN "" ELSE LF]
    IN  SelectSeq(mapped, LAMBDA c : c # "")

\* Path.write_text(text, encoding="utf-8") on POSIX: "\n" is written as is
write_text(text) == text

\* dict: a function from keys to values
EmptyDict == <<>>
Put(d, k, v) == [x \in (DOMAIN d) \cup {k} |-> IF x = k THEN v ELSE d[x]]
Has(d, k) == k \in DOMAIN d
Get(d, k, default) == IF k \in DOMAIN d THEN d[k] ELSE default

\* str.replace(old, new): leftmost occurrences, not overlapping
RECURSIVE Replace(_, _, _)
Replace(s, old, new) ==
    LET at == {i \in 1..(Len(s) - Len(old) + 1) : SubSeq(s, i, i + Len(old) - 1) = old}
    IN  IF at = {} THEN s
        ELSE LET i == SetMin(at)
             IN  SubSeq(s, 1, i - 1) \o new \o Replace(From(s, i + Len(old)), old, new)

NoMatch == [matched |-> FALSE, key |-> <<>>, value |-> <<>>]

\* YAML_KEY_RE.match(line), with groups 1 and 2:  ^(\w[\w-]*)\s*:\s*(.*)
YAML_KEY_RE_match(line) ==
    IF line = <<>> \/ ~IsWordChar(line[1]) THEN NoMatch
    ELSE LET n == Len(line)
             nonkey == {i \in 2..n : ~(IsWordChar(line[i]) \/ line[i] = "-")}
             keyEnd == IF nonkey = {} THEN n ELSE SetMin(nonkey) - 1
             ink == {i \in (keyEnd + 1)..n : ~IsSpace(line[i])}
             colon == IF ink = {} THEN n + 1 ELSE SetMin(ink)
             inv == {i \in (colon + 1)..n : ~IsSpace(line[i])}
             valueAt == IF inv = {} THEN n + 1 ELSE SetMin(inv)
         IN  IF colon <= n /\ line[colon] = ":"
             THEN [matched |-> TRUE, key |-> SubSeq(line, 1, keyEnd),
                   value |-> From(line, valueAt)]
             ELSE NoMatch

\* _flush
Flush(lines) == Strip(Join(lines, <<LF>>))

\* lines 56-64: strip surrounding quotes and unescape
Unquote(value) ==
    IF Len(value) >= 2 /\ value[1] \in {"\"", "'"} /\ value[Len(value)] = value[1]
    THEN LET inner == SubSeq(value, 2, Len(value) - 1)
             a == Replace(inner, <<"\\", "\\", "n">>, <<LF>>)
             b == Replace(a, <<"\\", "n">>, <<LF>>)
             c == Replace(b, <<"\\", "\\", "\"">>, <<"\"">>)
         IN  Replace(c, <<"\\", "\"">>, <<"\"">>)
    ELSE value

BrokenContinuation(line) == line

\* line 67: what a continuation line adds to current_lines
Continuation(line) == Strip(line)

\* the loop's variables before the first line; current_key is <<>> for None
\* and <<key>> otherwise
ParseStart ==
    [result |-> EmptyDict, current_key |-> <<>>, current_lines |-> <<>>,
     is_multiline |-> FALSE]

FlushKey(st) ==
    IF st.current_key # <<>>
    THEN Put(st.result, st.current_key[1], Flush(st.current_lines))
    ELSE st.result

\* lines 52-64: a key line; value is group 2 stripped
KeyLine(st, key, value) ==
    IF value = <<"|">>
    THEN [result |-> FlushKey(st), current_key |-> <<key>>,
          current_lines |-> <<>>, is_multiline |-> TRUE]
    ELSE [result |-> FlushKey(st), current_key |-> <<key>>,
          current_lines |-> <<Unquote(value)>>, is_multiline |-> FALSE]

\* lines 48-68: one iteration of the loop, key_match being
\* YAML_KEY_RE.match(line)
Matched(st, line, key_match) ==
    IF key_match.matched /\ ~(st.is_multiline /\ StartsWith(line, <<" ">>))
    THEN KeyLine(st, key_match.key, Strip(key_match.value))
    ELSE IF st.is_multiline /\ st.current_key # <<>>
    THEN [st EXCEPT !.current_lines = Append(@, Continuation(line))]
    ELSE st

\* one iteration of the loop of _parse_yaml_flat
ParseLine(st, line) == Matched(st, line, YAML_KEY_RE_match(line))

RECURSIVE ParseLines(_, _)
ParseLines(st, lines) ==
    IF lines = <<>> THEN st ELSE ParseLines(ParseLine(st, lines[1]), Tail(lines))

parse_yaml_flat(raw) == FlushKey(ParseLines(ParseStart, Split(raw, LF)))

\* FRONTMATTER_RE.match(text):  \A---\s*\n(.*?\n)---\s*\n  under re.DOTALL.
\* p is the newline that ends the opening "---\s*\n"
OpeningEndsAt(text, p) ==
    /\ text[p] = LF
    /\ \A i \in 4..(p - 1) : IsSpace(text[i])

\* q is the newline that ends group 1: "---\s*\n" follows it
ClosingFollows(text, q) ==
    /\ text[q] = LF
    /\ q + 3 <= Len(text)
    /\ SubSeq(text, q + 1, q + 3) = <<"-", "-", "-">>
    /\ \E r \in (q + 4)..Len(text) :
          /\ text[r] = LF
          /\ \A i \in (q + 4)..(r - 1) : IsSpace(text[i])

\* group 1 of the match, or <<>> when there is none (group 1 is never
\* empty).  The greedy \s* gives up as little as it must, so p is the
\* last newline it can end on; the lazy .*? then stops at the first q.
FrontmatterGroup(text) ==
    LET n == Len(text)
        qs == {q \in 5..n : ClosingFollows(text, q)}
        ps == {p \in 4..n : OpeningEndsAt(text, p) /\ \E q \in qs : q > p}
    IN  IF ~StartsWith(text, <<"-", "-", "-">>) \/ ps = {} THEN <<>>
        ELSE LET p == SetMax(ps)
                 q == SetMin({x \in qs : x > p})
             IN  SubSeq(text, p + 1, q)

\* lines 27-31: the result for group 1 of the match; found is FALSE for None
ParsedGroup(raw) ==
    IF raw = <<>> THEN [found |-> FALSE, fm |-> EmptyDict]
    ELSE [found |-> TRUE, fm |-> parse_yaml_flat(raw)]

\* parse_frontmatter on a file's bytes
parse_frontmatter(bytes) == ParsedGroup(FrontmatterGroup(read_text(bytes)))

---------------------------------------------------------------------------
(* Specification of the block parser: a block body is drawn and parsed.    *)

\* Most lines in a block body handed to the parser.
MaxYamlLines == 4

YamlLinePieces ==
    { <<"d",":"," ","|">>, <<"a">>, <<" "," ","b">>, <<"c">>, <<" "," ","x",":"," ","y">>, <<"n",":"," ","v">>, <<>>,
      <<"q",":"," ","\"","1","\\","n","2","\"">> }

RECURSIVE LineLists(_)
LineLists(n) ==
    IF n = 0 THEN {<<>>}
    ELSE LET shorter == LineLists(n - 1)
         IN  shorter \cup {Append(ls, l) : ls \in shorter, l \in YamlLinePieces}

YamlInit ==
    /\ yamlLines \in LineLists(MaxYamlLines) \ {<<>>}
    /\ yamlOut = EmptyDict
    /\ yamlPc = "input"
    /\ MainIdle
    /\ DescIdle

\* the block body: every line ends with a newline, as group 1 of
\* FRONTMATTER_RE does
YamlRaw(lines) == Join(lines, <<LF>>) \o <<LF>>

Parse ==
    /\ yamlPc = "input"
    /\ yamlOut' = parse_yaml_flat(YamlRaw(yamlLines))
    /\ yamlPc' = "parsed"
    /\ UNCHANGED <<yamlLines, mainVars, descVars>>

YamlNext == Parse

SpecYaml == YamlInit /\ [][YamlNext]_vars

---------------------------------------------------------------------------
(* Claims about the block parser. *)

\* an unindented line of the form key: value
IsKeyLine(l) == l # <<>> /\ ~IsSpace(l[1]) /\ YAML_KEY_RE_match(l).matched
KeyOf(l) == YAML_KEY_RE_match(l).key
OpensMultiline(l) == IsKeyLine(l) /\ Strip(YAML_KEY_RE_match(l).value) = <<"|">>

\* the index of the first key line after line n, or one past the last line
NextKeyLine(lines, n) ==
    LET later == {m \in (n + 1)..Len(lines) : IsKeyLine(lines[m])}
    IN  IF later = {} THEN Len(lines) + 1 ELSE SetMin(later)

\* line n is the last line that sets its key
LastOfKey(lines, n) ==
    \A m \in (n + 1)..Len(lines) : IsKeyLine(lines[m]) => KeyOf(lines[m]) # KeyOf(lines[n])

StrippedEach(lines) == [i \in 1..Len(lines) |-> Strip(lines[i])]

\* C9: after a key whose value is exactly "|", the lines up to the next
\* unindented key line are the value: each stripped, joined with newlines,
\* the whole trimmed (lines "a", "  b", "c" give "a\nb\nc").  An indented
\* "key: value" line is such a continuation and starts no key; an unindented
\* one ends the value and starts its own key.
C9_MultilineValue ==
    yamlPc = "parsed" =>
        /\ \A n \in 1..Len(yamlLines) :
              (OpensMultiline(yamlLines[n]) /\ LastOfKey(yamlLines, n)) =>
                  /\ Has(yamlOut, KeyOf(yamlLines[n]))
                  /\ yamlOut[KeyOf(yamlLines[n])] =
                        Strip(Join(StrippedEach(SubSeq(yamlLines, n + 1,
                                       NextKeyLine(yamlLines, n) - 1)), <<LF>>))
        /\ DOMAIN yamlOut = {KeyOf(yamlLines[n]) :
                                n \in {m \in 1..Len(yamlLines) : IsKeyLine(yamlLines[m])}}
        /\ yamlLines = <<<<"d",":"," ","|">>, <<"a">>, <<" "," ","b">>, <<"c">>>> =>
              yamlOut = (<<"d">> :> <<"a","\n","b","\n","c">>)

C9_Witness ==
    /\ yamlPc = "parsed"
    /\ yamlLines = <<<<"d",":"," ","|">>, <<"a">>, <<" "," ","x",":"," ","y">>, <<"n",":"," ","v">>>>
    /\ yamlOut = (<<"d">> :> <<"a","\n","x",":"," ","y">>) @@ (<<"n">> :> <<"v">>)


---------------------------------------------------------------------------
(* Paths.  A file or directory of the tree is the record                   *)
(* [root |-> the parts of REPO_ROOT, path |-> its components below         *)
(* REPO_ROOT, kind |-> "file" or "dir", content |-> ...].                  *)

\* line 10: Path.parts of REPO_ROOT, which is wherever the checkout lies
REPO_ROOTS == {<<<<"/">>, <<"r","e","p","o">>>>, <<<<"/">>, <<"_","a","r","c","h","i","v","e">>, <<"r","e","p","o">>>>}

\* f.parts
Parts(f) == f.root \o f.path

\* f.name
Name(f) == f.path[Len(f.path)]

\* f.stem: the name up to its last dot, unless that dot is first or last
Stem(f) ==
    LET nm == Name(f)
        dots == {i \in 1..Len(nm) : nm[i] = "."}
    IN  IF dots = {} \/ SetMax(dots) = 1 \/ SetMax(dots) = Len(nm) THEN nm
        ELSE SubSeq(nm, 1, SetMax(dots) - 1)

\* f.parent.name
ParentName(f) == Parts(f)[Len(Parts(f)) - 1]

\* str(f.relative_to(REPO_ROOT))
RelPath(f) == Join(f.path, <<"/">>)

\* f lies below the directory dir (a tuple of components)
Below(f, dir) == Len(f.path) > Len(dir) /\ SubSeq(f.path, 1, Len(dir)) = dir

\* str.title(): a cased character is upper-cased unless it follows a cased
\* character, and then it is lower-cased
IsCased(c) == c \in LowerSet \cup UpperSet
Title(s) ==
    [i \in 1..Len(s) |-> IF i > 1 /\ IsCased(s[i - 1]) THEN Lower(s[i]) ELSE Upper(s[i])]

\* ord(c) for the characters of the model: U+0020..U+005F and U+0061..U+007E
\* in order, and the three control characters
Printable == <<" ","!","\"","#","$","%","&","'","(",")","*","+",",","-",".","/","0","1","2","3","4","5","6","7","8","9",":",";","<","=",">","?","@","A","B","C","D","E","F","G","H","I","J","K","L","M","N","O","P","Q","R","S","T","U","V","W","X","Y","Z","[","\\","]","^","_">>
PrintableHigh == <<"a","b","c","d","e","f","g","h","i","j","k","l","m","n","o","p","q","r","s","t","u","v","w","x","y","z","{","|","}","~">>
CodePoint(c) ==
    IF c = "\t" THEN 9
    ELSE IF c = LF THEN 10
    ELSE IF c = CR THEN 13
    ELSE IF c = "u2014" THEN 8212
    ELSE IF c \in Range(PrintableHigh)
    THEN 96 + CHOOSE i \in 1..Len(PrintableHigh) : PrintableHigh[i] = c
    ELSE 31 + CHOOSE i \in 1..Len(Printable) : Printable[i] = c

\* a < b for two str
StrLess(a, b) ==
    \E i \in 1..(Len(a) + 1) :
        /\ i <= Len(b)
        /\ SubSeq(a, 1, i - 1) = SubSeq(b, 1, i - 1)
        /\ i = Len(a) + 1 \/ CodePoint(a[i]) < CodePoint(b[i])

\* p < q for two Path objects: their parts compare as tuples
PathLess(p, q) ==
    \E i \in 1..(Len(p) + 1) :
        /\ i <= Len(q)
        /\ SubSeq(p, 1, i - 1) = SubSeq(q, 1, i - 1)
        /\ i = Len(p) + 1 \/ StrLess(p[i], q[i])

\* sorted(files)
RECURSIVE Sorted(_)
Sorted(files) ==
    IF files = {} THEN <<>>
    ELSE LET first == CHOOSE f \in files :
                          \A g \in files \ {f} : PathLess(f.path, g.path)
         IN  <<first>> \o Sorted(files \ {first})

\* the directories on the way to f, below REPO_ROOT
Ancestors(f) ==
    {[root |-> f.root, path |-> SubSeq(f.path, 1, k), kind |-> "dir", content |-> <<>>] :
        k \in 1..(Len(f.path) - 1)}

\* everything the file system holds below REPO_ROOT: the records of the
\* tree and the directories that are there because something lies below
\* them
Entries(t) ==
    t \cup {d \in UNION {Ancestors(f) : f \in t} : \A g \in t : g.path # d.path}

\* dir.glob("*.md"): the files and directories directly in dir whose name
\* ends in ".md"
Glob_md(t, dir) ==
    {f \in Entries(t) : Below(f, dir) /\ Len(f.path) = Len(dir) + 1
                        /\ EndsWith(Name(f), <<".","m","d">>)}

\* dir.rglob("*.md")
RGlob_md(t, dir) ==
    {f \in Entries(t) : Below(f, dir) /\ EndsWith(Name(f), <<".","m","d">>)}

\* dir.rglob("SKILL.md")
RGlob_SKILL(t, dir) ==
    {f \in Entries(t) : Below(f, dir) /\ Name(f) = <<"S","K","I","L","L",".","m","d">>}

\* dir.exists()
Exists(t, dir) == \E f \in t : f.path = dir \/ Below(f, dir)

---------------------------------------------------------------------------
(* Discovery. *)

SKILL_CATEGORY_ORDER ==
    <<<<"m","e","t","a">>, <<"b","u","i","l","d","/","b","a","c","k","e","n","d">>, <<"b","u","i","l","d","/","f","r","o","n","t","e","n","d">>, <<"w","o","r","k","f","l","o","w">>, <<"p","a","t","t","e","r","n","s">>>>

SKILL_CATEGORY_DISPLAY ==
    (<<"m","e","t","a">> :> <<"M","e","t","a">>) @@
    (<<"b","u","i","l","d","/","b","a","c","k","e","n","d">> :> <<"B","u","i","l","d"," ","u2014"," ","B","a","c","k","e","n","d">>) @@
    (<<"b","u","i","l","d","/","f","r","o","n","t","e","n","d">> :> <<"B","u","i","l","d"," ","u2014"," ","F","r","o","n","t","e","n","d">>) @@
    (<<"w","o","r","k","f","l","o","w">> :> <<"W","o","r","k","f","l","o","w">>) @@
    (<<"p","a","t","t","e","r","n","s">> :> <<"P","a","t","t","e","r","n","s">>)

KeyName == <<"n","a","m","e">>
KeyDescription == <<"d","e","s","c","r","i","p","t","i","o","n">>

\* "not fm or 'name' not in fm"
Unnamed(r) == ~r.found \/ DOMAIN r.fm = {} \/ ~Has(r.fm, KeyName)

\* the file is passed over by the scanner that reads it
Skipped(f) == Unnamed(parse_frontmatter(f.content))

\* the entry a scanner appends for f; prefix is what precedes the file's
\* relative path in "path", category is <<>> where the entry has none
EntryOf(fm, path, category) ==
    [name |-> fm[KeyName],
     description |-> extract_catalog_description(Get(fm, KeyDescription, <<>>)),
     path |-> path,
     category |-> category]

Entry(f, path, category) == EntryOf(parse_frontmatter(f.content).fm, path, category)

\* the files of a sorted sequence that are not skipped
Kept(files) == SelectSeq(files, LAMBDA f : ~Skipped(f))

NoCategory == <<>>
UpPath(f) == <<".",".","/">> \o RelPath(f)
RulePath(f) == <<".",".","/","r","u","l","e","s","/">> \o Name(f)

\* the paths a scanner that warns prints a WARNING for
PathsOf(files) == [i \in 1..Len(files) |-> files[i].path]

WarnedOf(files) == PathsOf(SelectSeq(files, Skipped))

\* a scanner that skips silently prints nothing
SilentOf(files) == <<>>

\* line 26: path.read_text raises IsADirectoryError for a directory; nothing
\* catches it, so it ends the scanner, render_catalog and main
IsADirectoryError == <<"IsADirectoryError">>

Raised(files) == \E i \in 1..Len(files) : files[i].kind = "dir"

\* the files a scanner's loop gets through: those before the first directory
Done(files) ==
    LET dirs == {i \in 1..Len(files) : files[i].kind = "dir"}
    IN  IF dirs = {} THEN files ELSE SubSeq(files, 1, SetMin(dirs) - 1)

\* line 119-123: the entry of a rule file
RuleEntry(f) == Entry(f, RulePath(f), NoCategory)

RuleEntries(kept) == [i \in 1..Len(kept) |-> RuleEntry(kept[i])]

\* line 114
RuleFiles(t) == Sorted(Glob_md(t, <<<<"r","u","l","e","s">>>>))

discover_rules(t) ==
    IF Raised(RuleFiles(t)) THEN IsADirectoryError
    ELSE RuleEntries(Kept(RuleFiles(t)))

discover_rules_warnings(t) == WarnedOf(Done(RuleFiles(t)))

\* _skill_category: the components between skills/ and <skill>/SKILL.md
SkillCategory(f) ==
    LET rel == From(f.path, 2)
    IN  Join(SubSeq(rel, 1, Len(rel) - 2), <<"/">>)

\* the entry of a skill file, upstream or custom, and of a custom agent
PlainEntry(f) == Entry(f, UpPath(f), NoCategory)

PlainEntries(kept) == [i \in 1..Len(kept) |-> PlainEntry(kept[i])]

\* by_category: a dict from each category met to its entries, in file order
ByCategory(kept) ==
    [c \in {SkillCategory(kept[i]) : i \in 1..Len(kept)} |->
        PlainEntries(SelectSeq(kept, LAMBDA f : SkillCategory(f) = c))]

\* line 138
SkillFiles(t) == Sorted(RGlob_SKILL(t, <<<<"s","k","i","l","l","s">>>>))

discover_skills(t) ==
    IF Raised(SkillFiles(t)) THEN IsADirectoryError
    ELSE ByCategory(Kept(SkillFiles(t)))

discover_skills_warnings(t) == WarnedOf(Done(SkillFiles(t)))

\* lines 159-162: archive, reference files, READMEs
AgentExcluded(f) ==
    \/ \E i \in 1..Len(Parts(f)) : Parts(f)[i] = <<"_","a","r","c","h","i","v","e">>
    \/ EndsWith(Stem(f), <<"-","r","e","f","e","r","e","n","c","e">>)
    \/ Name(f) = <<"R","E","A","D","M","E",".","m","d">>

AgentCategory(f) == Title(ParentName(f))

\* the files and directories discover_agents reads, in order
AgentFiles(t) ==
    SelectSeq(Sorted(RGlob_md(t, <<<<"a","g","e","n","t","s">>>>)), LAMBDA f : ~AgentExcluded(f))

AgentEntry(f) == Entry(f, UpPath(f), AgentCategory(f))

AgentEntries(kept) == [i \in 1..Len(kept) |-> AgentEntry(kept[i])]

discover_agents(t) ==
    IF Raised(AgentFiles(t)) THEN IsADirectoryError
    ELSE AgentEntries(Kept(AgentFiles(t)))

discover_agents_warnings(t) == SilentOf(Done(AgentFiles(t)))

CustomSkillsDir == <<<<"c","u","s","t","o","m">>, <<"s","k","i","l","l","s">>>>
CustomAgentsDir == <<<<"c","u","s","t","o","m">>, <<"a","g","e","n","t","s">>>>

\* lines 180-184
CustomSkillFiles(t) ==
    IF ~Exists(t, CustomSkillsDir) THEN <<>>
    ELSE Sorted(RGlob_SKILL(t, CustomSkillsDir))

discover_custom_skills(t) ==
    IF Raised(CustomSkillFiles(t)) THEN IsADirectoryError
    ELSE PlainEntries(Kept(CustomSkillFiles(t)))

\* lines 198-203
CustomAgentFiles(t) ==
    IF ~Exists(t, CustomAgentsDir) THEN <<>>
    ELSE SelectSeq(Sorted(RGlob_md(t, CustomAgentsDir)),
                   LAMBDA f : Name(f) # <<"R","E","A","D","M","E",".","m","d">>)

discover_custom_agents(t) ==
    IF Raised(CustomAgentFiles(t)) THEN IsADirectoryError
    ELSE PlainEntries(Kept(CustomAgentFiles(t)))

\* lines 220-224: one of the five scanners raises
RenderRaises(t) ==
    \/ Raised(RuleFiles(t))
    \/ Raised(SkillFiles(t))
    \/ Raised(AgentFiles(t))
    \/ Raised(CustomSkillFiles(t))
    \/ Raised(CustomAgentFiles(t))

\* what the scanners print to stderr during one render_catalog, which
\* runs them in this order and stops at the first that raises; the two
\* custom scanners print nothing
RenderWarnings(t) ==
    discover_rules_warnings(t)
        \o (IF Raised(RuleFiles(t)) THEN <<>>
            ELSE discover_skills_warnings(t)
                    \o (IF Raised(SkillFiles(t)) THEN <<>>
                        ELSE discover_agents_warnings(t)))

---------------------------------------------------------------------------
(* Rendering. *)

\* str(n) for a natural number
RECURSIVE Str(_)
Str(n) == IF n < 10 THEN <<Digits[n + 1]>> ELSE Str(n \div 10) \o <<Digits[(n % 10) + 1]>>

RECURSIVE SumLens(_, _)
SumLens(d, keys) ==
    IF keys = {} THEN 0
    ELSE LET k == CHOOSE x \in keys : TRUE
         IN  Len(d[k]) + SumLens(d, keys \ {k})

\* line 226: sum(len(v) for v in skills_by_cat.values())
TotalSkills(skills_by_cat) == SumLens(skills_by_cat, DOMAIN skills_by_cat)

TableHead == <<<<"|"," ","N","a","m","e"," ","|"," ","D","e","s","c","r","i","p","t","i","o","n"," ","|">>, <<"|","-","-","-","-","-","-","|","-","-","-","-","-","-","-","-","-","-","-","-","|">>>>

Row(e) == <<"|"," ","[">> \o e.name \o <<"]","(">> \o e.path \o <<")"," ","|"," ">> \o e.description \o <<" ","|">>

AgentRow(e) ==
    <<"|"," ","[">> \o e.name \o <<"]","(">> \o e.path \o <<")"," ","|"," ">> \o e.category \o <<" ","|"," ">>
        \o e.description \o <<" ","|">>

Rows(entries) == [i \in 1..Len(entries) |-> Row(entries[i])]
AgentRows(entries) == [i \in 1..Len(entries) |-> AgentRow(entries[i])]

Heading(marks, title, n) == marks \o <<" ">> \o title \o <<" ","(">> \o Str(n) \o <<")">>

HeaderLines ==
    << <<"<","!","-","-"," ","A","U","T","O","-","G","E","N","E","R","A","T","E","D"," ","b","y"," ","s","c","r","i","p","t","s","/","g","e","n","e","r","a","t","e","-","c","a","t","a","l","o","g",".","p","y"," ","u2014"," ","d","o"," ","n","o","t"," ","e","d","i","t"," ","m","a","n","u","a","l","l","y"," ","-","-",">">>,
       <<>>,
       <<"#"," ","S","k","i","l","l"," ","L","i","b","r","a","r","y"," ","u2014"," ","C","a","t","a","l","o","g">>,
       <<>>,
       <<">"," ","[","R","E","A","D","M","E","]","(",".",".","/","R","E","A","D","M","E",".","m","d",")"," ","|"," ","*","*","C","A","T","A","L","O","G","*","*"," ","|"," ","[","S","K","I","L","L","S","-","E","X","P","L","A","I","N","E","D","]","(","S","K","I","L","L","S","-","E","X","P","L","A","I","N","E","D",".","m","d",")"," ","|"," ","[","A","R","T","I","C","L","E","]","(","A","R","T","I","C","L","E",".","m","d",")">>,
       <<>>,
       <<">"," ","[","!","T","I","P","]">>,
       <<">"," ","T","o"," ","i","n","s","t","a","l","l"," ","a","n","y"," ","s","k","i","l","l"," ","o","r"," ","a","g","e","n","t"," ","b","e","l","o","w",","," ","s","e","e"," ","[","Q","u","i","c","k","s","t","a","r","t","]","(",".",".","/","R","E","A","D","M","E",".","m","d","#","q","u","i","c","k","s","t","a","r","t",")"," ","i","n"," ","t","h","e"," ","R","E","A","D","M","E",".">>,
       <<>> >>

RulesLines(rules) ==
    << Heading(<<"#","#">>, <<"R","u","l","e","s">>, Len(rules)), <<>>,
       <<"*","A","l","w","a","y","s"," ","l","o","a","d","e","d"," ","u2014"," ","s","h","a","p","e"," ","e","v","e","r","y"," ","i","n","t","e","r","a","c","t","i","o","n",".","*">>, <<>> >>
    \o TableHead \o Rows(rules) \o << <<>>, <<"-","-","-">>, <<>> >>

\* lines 260-271: one subsection for each category of the fixed order that
\* has skills
RECURSIVE CategoryLines(_, _)
CategoryLines(skills_by_cat, order) ==
    IF order = <<>> THEN <<>>
    ELSE LET cat_key == order[1]
             cat_skills == Get(skills_by_cat, cat_key, <<>>)
             rest == CategoryLines(skills_by_cat, Tail(order))
         IN  IF cat_skills = <<>> THEN rest
             ELSE << Heading(<<"#","#","#">>, Get(SKILL_CATEGORY_DISPLAY, cat_key, Title(cat_key)),
                             Len(cat_skills)), <<>> >>
                  \o TableHead \o Rows(cat_skills) \o << <<>> >> \o rest

SkillsLines(skills_by_cat) ==
    << Heading(<<"#","#">>, <<"S","k","i","l","l","s">>, TotalSkills(skills_by_cat)), <<>>,
       <<"*","L","o","a","d"," ","o","n"," ","d","e","m","a","n","d"," ","u2014"," ","t","e","a","c","h"," ","C","l","a","u","d","e"," ","s","p","e","c","i","a","l","i","z","e","d"," ","w","o","r","k","f","l","o","w","s",".","*">>, <<>> >>
    \o CategoryLines(skills_by_cat, SKILL_CATEGORY_ORDER)
    \o << <<"-","-","-">>, <<>> >>

AgentsLines(agents) ==
    << Heading(<<"#","#">>, <<"A","g","e","n","t","s">>, Len(agents)), <<>>,
       <<"*","I","s","o","l","a","t","e","d"," ","s","u","b","p","r","o","c","e","s","s","e","s"," ","u2014"," ","z","e","r","o"," ","p","a","r","e","n","t"," ","c","o","n","t","e","x","t"," ","i","n",","," ","r","e","s","u","l","t"," ","o","u","t",".","*">>, <<>>,
       <<"|"," ","N","a","m","e"," ","|"," ","C","a","t","e","g","o","r","y"," ","|"," ","D","e","s","c","r","i","p","t","i","o","n"," ","|">>,
       <<"|","-","-","-","-","-","-","|","-","-","-","-","-","-","-","-","-","-","|","-","-","-","-","-","-","-","-","-","-","-","-","|">> >>
    \o AgentRows(agents) \o << <<>>, <<"-","-","-">>, <<>> >>

Placeholder == <<"*","Y","o","u","r"," ","p","r","o","j","e","c","t","-","s","p","e","c","i","f","i","c"," ","s","k","i","l","l","s"," ","a","n","d"," ","a","g","e","n","t","s"," ","u2014"," ","n","o","t"," ","t","r","a","c","k","e","d"," ","b","y"," ","u","p","s","t","r","e","a","m","."," ","S","e","e"," ","[","c","u","s","t","o","m","/","R","E","A","D","M","E",".","m","d","]","(",".",".","/","c","u","s","t","o","m","/","R","E","A","D","M","E",".","m","d",")"," ","t","o"," ","g","e","t"," ","s","t","a","r","t","e","d",".","*">>

CustomTable(title, entries) ==
    IF entries = <<>> THEN <<>>
    ELSE << Heading(<<"#","#","#">>, title, Len(entries)), <<>> >>
         \o TableHead \o Rows(entries) \o << <<>> >>

BrokenCustomLines(custom_skills, custom_agents) ==
    << <<"#","#"," ","C","u","s","t","o","m">>, <<>> >>
    \o (IF custom_skills # <<>>
        THEN CustomTable(<<"C","u","s","t","o","m"," ","S","k","i","l","l","s">>, custom_skills)
             \o CustomTable(<<"C","u","s","t","o","m"," ","A","g","e","n","t","s">>, custom_agents)
        ELSE << Placeholder, <<>> >>)

\* lines 289-311
CustomLines(custom_skills, custom_agents) ==
    << <<"#","#"," ","C","u","s","t","o","m">>, <<>> >>
    \o (IF custom_skills # <<>> \/ custom_agents # <<>>
        THEN CustomTable(<<"C","u","s","t","o","m"," ","S","k","i","l","l","s">>, custom_skills)
             \o CustomTable(<<"C","u","s","t","o","m"," ","A","g","e","n","t","s">>, custom_agents)
        ELSE << Placeholder, <<>> >>)

\* the list "lines" at the end of render_catalog
RenderLines(t) ==
    HeaderLines
    \o RulesLines(discover_rules(t))
    \o SkillsLines(discover_skills(t))
    \o AgentsLines(discover_agents(t))
    \o CustomLines(discover_custom_skills(t), discover_custom_agents(t))

render_catalog(t) ==
    IF RenderRaises(t) THEN IsADirectoryError ELSE Join(RenderLines(t), <<LF>>)

---------------------------------------------------------------------------
(* The entry point and the files around it. *)

\* Most files and directories in the input tree.
MaxFiles == 2

Named   == <<"-","-","-","\n","n","a","m","e",":"," ","n","\n","d","e","s","c","r","i","p","t","i","o","n",":"," ","|","\n"," "," ","S","u","m","\n"," "," ","U","s","e"," ","w","h","e","n"," ","x","\n","-","-","-","\n">>
NoBlock == <<"t","e","x","t","\n">>
NoName  == <<"-","-","-","\n","d","e","s","c","r","i","p","t","i","o","n",":"," ","d","\n","-","-","-","\n">>

File(root, path, content) ==
    [root |-> root, path |-> path, kind |-> "file", content |-> content]
Dir(root, path) == [root |-> root, path |-> path, kind |-> "dir", content |-> <<>>]

\* The files and directories an input tree is made of, in a checkout at
\* root.
Candidates(root) ==
    { File(root, <<<<"r","u","l","e","s">>, <<"a",".","m","d">>>>, Named),
      File(root, <<<<"r","u","l","e","s">>, <<"b",".","m","d">>>>, NoBlock),
      File(root, <<<<"r","u","l","e","s">>, <<"c","\r",".","m","d">>>>, Named),
      File(root, <<<<"s","k","i","l","l","s">>, <<"w","o","r","k","f","l","o","w">>, <<"s">>, <<"S","K","I","L","L",".","m","d">>>>, Named),
      File(root, <<<<"s","k","i","l","l","s">>, <<"m","e","t","a">>, <<"v">>, <<"S","K","I","L","L",".","m","d">>>>, Named),
      File(root, <<<<"s","k","i","l","l","s">>, <<"m","i","s","c">>, <<"t">>, <<"S","K","I","L","L",".","m","d">>>>, Named),
      File(root, <<<<"s","k","i","l","l","s">>, <<"m","e","t","a">>, <<"u">>, <<"S","K","I","L","L",".","m","d">>>>, NoName),
      File(root, <<<<"a","g","e","n","t","s">>, <<"r","e","v","i","e","w">>, <<"a",".","m","d">>>>, Named),
      File(root, <<<<"a","g","e","n","t","s">>, <<"_","a","r","c","h","i","v","e">>, <<"b",".","m","d">>>>, Named),
      File(root, <<<<"a","g","e","n","t","s">>, <<"a","r","c","h","i","v","e">>, <<"c",".","m","d">>>>, Named),
      File(root, <<<<"a","g","e","n","t","s">>, <<"r","e","v","i","e","w">>, <<"d","-","r","e","f","e","r","e","n","c","e",".","m","d">>>>, Named),
      File(root, <<<<"a","g","e","n","t","s">>, <<"R","E","A","D","M","E",".","m","d">>>>, Named),
      File(root, <<<<"a","g","e","n","t","s">>, <<"r","e","v","i","e","w">>, <<"e",".","m","d">>>>, NoBlock),
      File(root, <<<<"c","u","s","t","o","m">>, <<"s","k","i","l","l","s">>, <<"k">>, <<"S","K","I","L","L",".","m","d">>>>, Named),
      File(root, <<<<"c","u","s","t","o","m">>, <<"s","k","i","l","l","s">>, <<"m">>, <<"S","K","I","L","L",".","m","d">>>>, NoName),
      File(root, <<<<"c","u","s","t","o","m">>, <<"a","g","e","n","t","s">>, <<"n",".","m","d">>>>, Named),
      File(root, <<<<"c","u","s","t","o","m">>, <<"a","g","e","n","t","s">>, <<"R","E","A","D","M","E",".","m","d">>>>, Named),
      Dir(root, <<<<"c","u","s","t","o","m">>, <<"s","k","i","l","l","s">>>>),
      File(root, <<<<"r","u","l","e","s">>, <<"d",".","m","d">>, <<"y",".","m","d">>>>, Named),
      Dir(root, <<<<"s","k","i","l","l","s">>, <<"m","e","t","a">>, <<"w">>, <<"S","K","I","L","L",".","m","d">>>>),
      File(root, <<<<"a","g","e","n","t","s">>, <<"r","e","v","i","e","w">>, <<"f",".","m","d">>, <<"g",".","m","d">>>>, Named),
      Dir(root, <<<<"c","u","s","t","o","m">>, <<"s","k","i","l","l","s">>, <<"j">>, <<"S","K","I","L","L",".","m","d">>>>),
      Dir(root, <<<<"c","u","s","t","o","m">>, <<"a","g","e","n","t","s">>, <<"d",".","m","d">>>>) }

\* the trees of at most n candidates
RECURSIVE Trees(_, _)
Trees(root, n) ==
    IF n = 0 THEN {{}}
    ELSE LET smaller == Trees(root, n - 1)
         IN  smaller \cup {t \cup {c} : t \in smaller, c \in Candidates(root)}


\* docs/CATALOG.md: missing from docs/, missing together with docs/, and
\* as write_text leaves it
Absent == [dir |-> TRUE, exists |-> FALSE, bytes |-> <<>>]
NoDocs == [dir |-> FALSE, exists |-> FALSE, bytes |-> <<>>]
Written(catalog) == [dir |-> TRUE, exists |-> TRUE, bytes |-> write_text(catalog)]

BrokenTargetAfter(check_mode, old, catalog) ==
    IF catalog = IsADirectoryError \/ ~old.dir \/ (check_mode /\ old.exists) THEN old
    ELSE Written(catalog)

\* lines 319-339: docs/CATALOG.md after main.  Only a write run whose
\* render_catalog returned reaches write_text (check mode leaves through
\* sys.exit first), and write_text raises FileNotFoundError when docs/ is
\* missing
TargetAfter(check_mode, old, catalog) ==
    IF catalog = IsADirectoryError \/ ~old.dir \/ check_mode THEN old
    ELSE Written(catalog)

\* lines 319-340: the exit status of main; an uncaught exception ends the
\* interpreter with status 1
ExitAfter(check_mode, old, catalog) ==
    IF catalog = IsADirectoryError THEN 1
    ELSE IF check_mode
    THEN IF ~old.exists THEN 1
         ELSE IF read_text(old.bytes) = catalog THEN 0 ELSE 1
    ELSE IF old.dir THEN 0 ELSE 1

\* lines 322-340: main once render_catalog has returned catalog
Finish(check_mode, catalog) ==
    /\ target' = TargetAfter(check_mode, target, catalog)
    /\ exitCode' = ExitAfter(check_mode, target, catalog)
    /\ warnings' = RenderWarnings(tree)
    /\ last' = IF check_mode THEN "check" ELSE "write"
    /\ UNCHANGED <<tree, descVars, yamlVars>>

\* main
Main(check_mode) == Finish(check_mode, render_catalog(tree))

RunWrite == Main(FALSE)

RunCheck == Main(TRUE)

\* Somebody else saves the target with a Windows line ending on its first
\* line.
ConvertLineEnding ==
    /\ target.exists
    /\ {k \in 1..Len(target.bytes) : target.bytes[k] = CR} = {}
    /\ {k \in 1..Len(target.bytes) : target.bytes[k] = LF} # {}
    /\ LET i == SetMin({k \in 1..Len(target.bytes) : target.bytes[k] = LF})
       IN  target' = [target EXCEPT !.bytes = SubSeq(@, 1, i - 1) \o <<CR>> \o From(@, i)]
    /\ last' = "tamper"
    /\ UNCHANGED <<tree, exitCode, warnings, descVars, yamlVars>>

\* Somebody else appends a blank to the target.
AppendBlank ==
    /\ target.exists
    /\ last = "write"
    /\ target' = [target EXCEPT !.bytes = @ \o <<" ">>]
    /\ last' = "tamper"
    /\ UNCHANGED <<tree, exitCode, warnings, descVars, yamlVars>>

\* Somebody else deletes the target.
DeleteTarget ==
    /\ target.exists
    /\ target' = Absent
    /\ last' = "tamper"
    /\ UNCHANGED <<tree, exitCode, warnings, descVars, yamlVars>>

\* Somebody else removes the directory docs/ and all it holds.
RemoveDocs ==
    /\ target.dir
    /\ target' = NoDocs
    /\ last' = "tamper"
    /\ UNCHANGED <<tree, exitCode, warnings, descVars, yamlVars>>

Init ==
    /\ \E root \in REPO_ROOTS : tree \in Trees(root, MaxFiles)
    /\ target = Absent
    /\ last = "none"
    /\ exitCode = 0
    /\ warnings = <<>>
    /\ DescIdle
    /\ YamlIdle

Next ==
    \/ RunWrite
    \/ RunCheck
    \/ ConvertLineEnding
    \/ AppendBlank
    \/ DeleteTarget
    \/ RemoveDocs

Spec == Init /\ [][Next]_vars

---------------------------------------------------------------------------
(* Claims about the entry point and the rendered catalog. *)

\* the lines of a text
LinesOf(text) ==
    LET n == Len(text)
        marks == SelectSeq([i \in 1..n |-> IF text[i] = LF THEN i ELSE 0],
                           LAMBDA i : i > 0)
        m == Len(marks)
    IN  [k \in 1..(m + 1) |->
            SubSeq(text,
                   IF k = 1 THEN 1 ELSE marks[k - 1] + 1,
                   IF k = m + 1 THEN n ELSE marks[k] - 1)]

Contains(s, part) ==
    \E i \in 1..(Len(s) - Len(part) + 1) : SubSeq(s, i, i + Len(part) - 1) = part

IsRow(line) == StartsWith(line, <<"|"," ","[">>)

\* the rows of the rendered catalog that link to file f
RowsLinking(lines, f) ==
    {k \in 1..Len(lines) :
        IsRow(lines[k]) /\ Contains(lines[k], <<"]","(",".",".","/">> \o RelPath(f) \o <<")"," ","|"," ">>)}

\* C1: a --check run exits 0 exactly when docs/CATALOG.md exists and its
\* content is character for character the fresh render; otherwise it exits 1.
C1_CheckExitIffIdentical ==
    last = "check" =>
        /\ exitCode \in {0, 1}
        /\ exitCode = 0 <=> (target.exists /\ target.bytes = render_catalog(tree))

\* C2: a --check run that immediately follows a write run on the same tree
\* exits 0; stated for the write runs that ended with status 0.
C2_CheckAfterWrite ==
    [][(last = "write" /\ exitCode = 0 /\ last' = "check") => exitCode' = 0]_vars

\* C3: a --check run leaves docs/CATALOG.md as it found it, absent or
\* present, whatever the run's outcome.
C3_CheckLeavesTarget ==
    [][last' = "check" => target' = target]_vars

C3_Witness ==
    /\ last = "check"
    /\ ~target.exists
    /\ exitCode = 1

\* the paths the scanners' patterns match, files and directories
MatchedEntries(t) ==
    Glob_md(t, <<<<"r","u","l","e","s">>>>) \cup RGlob_SKILL(t, <<<<"s","k","i","l","l","s">>>>)
        \cup RGlob_md(t, <<<<"a","g","e","n","t","s">>>>) \cup RGlob_SKILL(t, CustomSkillsDir)
        \cup RGlob_md(t, CustomAgentsDir)

\* the files each scanner matches
MatchedFiles(t) == {f \in MatchedEntries(t) : f.kind = "file"}

Occurrences(seq, x) == Cardinality({i \in 1..Len(seq) : seq[i] = x})

\* C4: after a write run, every matched file without a metadata block or
\* without a name has no row in the catalog and exactly one warning, and
\* the run has exited 0; stated for the runs that find docs/ in place and
\* no directory among the matched paths.
C4_SkippedWarnsOnce ==
    (last = "write" /\ target.dir /\ ~RenderRaises(tree)) =>
        \A f \in MatchedFiles(tree) :
            Skipped(f) =>
                /\ exitCode = 0
                /\ RowsLinking(LinesOf(target.bytes), f) = {}
                /\ Occurrences(warnings, f.path) = 1

\* the lines from heading h up to the next heading of its level or above
SectionOf(lines, h) ==
    LET deep == StartsWith(lines[h], <<"#","#","#"," ">>)
        ends == {k \in (h + 1)..Len(lines) :
                    \/ StartsWith(lines[k], <<"#","#"," ">>)
                    \/ deep /\ StartsWith(lines[k], <<"#","#","#"," ">>)}
        stop == IF ends = {} THEN Len(lines) + 1 ELSE SetMin(ends)
    IN  (h + 1)..(stop - 1)

CountedHeading(line) ==
    /\ StartsWith(line, <<"#","#"," ">>) \/ StartsWith(line, <<"#","#","#"," ">>)
    /\ EndsWith(line, <<")">>)

\* C6: after a write run that stored its catalog, every heading that shows
\* a count shows the number of table rows of its section or subsection.
C6_HeadingCounts ==
    (last = "write" /\ exitCode = 0) =>
        LET lines == LinesOf(target.bytes)
        IN  \A h \in 1..Len(lines) :
                CountedHeading(lines[h]) =>
                    EndsWith(lines[h],
                             <<" ","(">> \o Str(Cardinality({k \in SectionOf(lines, h) :
                                                          IsRow(lines[k])})) \o <<")">>)

\* some directory on the way to f, below REPO_ROOT, has this name
UnderDirNamed(f, name) == \E i \in 1..(Len(f.path) - 1) : f.path[i] = name

HasName(f) == ~Skipped(f)

\* the start of the row an agent file is expected to have
AgentRowStart(f) ==
    <<"|"," ","[">> \o parse_frontmatter(f.content).fm[KeyName] \o <<"]","(",".",".","/">> \o RelPath(f)
        \o <<")"," ","|"," ">> \o Title(f.path[Len(f.path) - 1]) \o <<" ","|"," ">>

\* the claim excludes the file: it lies under an archive directory
\* (spelled "archive" in the claim, "_archive" in line 159), its name less
\* the suffix ends in "-reference", or it is named README.md
Excluded(f) ==
    \/ UnderDirNamed(f, <<"a","r","c","h","i","v","e">>)
    \/ UnderDirNamed(f, <<"_","a","r","c","h","i","v","e">>)
    \/ EndsWith(Stem(f), <<"-","r","e","f","e","r","e","n","c","e">>)
    \/ Name(f) = <<"R","E","A","D","M","E",".","m","d">>

\* C7: after a write run that stored its catalog, the Agents table has
\* exactly one row, with the title-cased parent directory as its category,
\* for every matched file with a name that is not under an archive
\* directory, not a "-reference" file and not a README.md, and no row for
\* a "-reference" file or a README.md.  Nothing is asked here of the files
\* under a directory named "archive" or "_archive", so the formula takes
\* no side on the spelling.
C7_AgentEntries ==
    (last = "write" /\ exitCode = 0) =>
        LET lines == LinesOf(target.bytes)
        IN  \A f \in {g \in RGlob_md(tree, <<<<"a","g","e","n","t","s">>>>) : g.kind = "file"} :
                LET rows == RowsLinking(lines, f)
                IN  /\ (~Excluded(f) /\ HasName(f)) =>
                          /\ Cardinality(rows) = 1
                          /\ \A k \in rows : StartsWith(lines[k], AgentRowStart(f))
                    /\ (EndsWith(Stem(f), <<"-","r","e","f","e","r","e","n","c","e">>) \/ Name(f) = <<"R","E","A","D","M","E",".","m","d">>) =>
                          rows = {}

HasLine(lines, line) == \E k \in 1..Len(lines) : lines[k] = line
HasLineStarting(lines, start) == \E k \in 1..Len(lines) : StartsWith(lines[k], start)

\* C8: the Custom section of a written catalog shows the placeholder
\* exactly when both custom collections are empty, and otherwise a table
\* for each collection that is not empty; a custom root that does not
\* exist gives an empty collection, and a run without it that finds docs/
\* in place and only files among the matched paths exits 0.
C8_CustomSection ==
    /\ (last = "write" /\ exitCode = 0) =>
            LET lines == LinesOf(target.bytes)
                custom_skills == discover_custom_skills(tree)
                custom_agents == discover_custom_agents(tree)
            IN  /\ HasLine(lines, Placeholder) <=> (custom_skills = <<>> /\ custom_agents = <<>>)
                /\ HasLineStarting(lines, <<"#","#","#"," ","C","u","s","t","o","m"," ","S","k","i","l","l","s"," ","(">>) <=> custom_skills # <<>>
                /\ HasLineStarting(lines, <<"#","#","#"," ","C","u","s","t","o","m"," ","A","g","e","n","t","s"," ","(">>) <=> custom_agents # <<>>
    /\ last = "write" =>
            /\ ~Exists(tree, CustomSkillsDir) => discover_custom_skills(tree) = <<>>
            /\ ~Exists(tree, CustomAgentsDir) => discover_custom_agents(tree) = <<>>
            /\ (~Exists(tree, <<<<"c","u","s","t","o","m">>>>) /\ target.dir /\ MatchedFiles(tree) = MatchedEntries(tree))
                   => exitCode = 0

C8_Witness ==
    /\ last = "write"
    /\ exitCode = 0
    /\ ~Exists(tree, CustomAgentsDir)
    /\ discover_custom_skills(tree) # <<>>
    /\ HasLine(LinesOf(target.bytes), <<"#","#","#"," ","C","u","s","t","o","m"," ","S","k","i","l","l","s"," ","(","1",")">>)
    /\ ~HasLine(LinesOf(target.bytes), Placeholder)

=============================================================================
